---- MODULE Spec2Model ----
(***************************************************************************)
(* Channel-name resolution of the messaging SDK                            *)
(* (packages/messaging/src/utils/channelResolution.ts):                    *)
(* isChannelName / normalizeChannelName / formatChannelName,               *)
(* LocalChannelRegistry and PersistentChannelRegistry.                     *)
(*                                                                         *)
(* A JavaScript string is a sequence of one-character strings, so that     *)
(* trim, toLowerCase, startsWith and slice are computed, not assumed.      *)
(* A Map is the function from its keys to their values.                    *)
(***************************************************************************)
EXTENDS Integers, Sequences, FiniteSets, TLC

VARIABLES kind, storage, stored, nameToId, idToName, last, calls, universe,
          batch

vars ==
  <<kind, storage, stored, nameToId, idToName, last, calls, universe, batch>>

(***************************************************************************)
(* Strings                                                                 *)
(***************************************************************************)

\* String.prototype.toLowerCase on one character of the model's alphabet.
Lower(c) ==
  CASE c = "A" -> "a"
    [] c = "B" -> "b"
    [] c = "X" -> "x"
    [] c = "S" -> "s"
    [] c = "U" -> "u"
    [] c = "I" -> "i"
    [] OTHER -> c

toLowerCase(s) == [i \in 1..Len(s) |-> Lower(s[i])]

IsWhiteSpace(c) == c = " "

RECURSIVE trimStart(_)
trimStart(s) ==
  IF s # <<>> /\ IsWhiteSpace(Head(s)) THEN trimStart(Tail(s)) ELSE s

RECURSIVE trimEnd(_)
trimEnd(s) ==
  IF s # <<>> /\ IsWhiteSpace(s[Len(s)])
  THEN trimEnd(SubSeq(s, 1, Len(s) - 1))
  ELSE s

\* String.prototype.trim
trim(s) == trimEnd(trimStart(s))

\* String.prototype.startsWith
startsWith(s, p) == Len(s) >= Len(p) /\ SubSeq(s, 1, Len(p)) = p

\* String.prototype.endsWith
endsWith(s, p) ==
  Len(s) >= Len(p) /\ SubSeq(s, Len(s) - Len(p) + 1, Len(s)) = p

\* the '#' presentation prefix and the '0x' identifier prefix
Hash == <<"#">>
ZeroX == <<"0", "x">>

\* mutant of isChannelName: the '0x' test is missing
isChannelNameNoIdTest(input) ==
  IF Len(input) = 0 THEN FALSE
  ELSE IF startsWith(input, Hash) THEN TRUE
  ELSE TRUE

\* isChannelName that asks for the '#' prefix
isChannelNameHashOnly(input) ==
  IF Len(input) = 0 THEN FALSE
  ELSE startsWith(input, Hash)

\* isChannelName(input)
isChannelName(input) ==
  IF Len(input) = 0 THEN FALSE
  ELSE IF startsWith(input, Hash) THEN TRUE
  ELSE IF startsWith(input, ZeroX) THEN FALSE
  ELSE TRUE

\* normalizeChannelName(name): trim, lower-case, strip one leading '#'
normalizeChannelName(name) ==
  LET normalized == toLowerCase(trim(name))
  IN  IF startsWith(normalized, Hash) THEN Tail(normalized) ELSE normalized

\* formatChannelName(name): `#${normalizeChannelName(name)}`
formatChannelName(name) == Hash \o normalizeChannelName(name)

(***************************************************************************)
(* Values of the JavaScript runtime                                        *)
(***************************************************************************)

\* the result of Map.get on a missing key; no string of the model equals it
Undefined == <<"undefined">>

\* the null returned by reverseLookup and by Storage.getItem
Null == <<"null">>

\* A Map (and a Record<string, string>) is the function from the keys it
\* holds to their values. The iteration order of a Map is not part of the
\* model: no branch of the registry depends on it.
Has(m, k) == k \in DOMAIN m

\* Map.get(key)
Get(m, k) == IF Has(m, k) THEN m[k] ELSE Undefined

\* Map.set(key, value)
Set(m, k, v) == [x \in DOMAIN m \cup {k} |-> IF x = k THEN v ELSE m[x]]

\* Map.delete(key)
Delete(m, k) == [x \in DOMAIN m \ {k} |-> m[x]]

\* new Map()
EmptyMap == <<>>

\* JavaScript truthiness of a string-or-undefined-or-null value: undefined,
\* null and the empty string are falsy
Truthy(v) == v # Undefined /\ v # Null /\ v # <<>>

(***************************************************************************)
(* LocalChannelRegistry: the methods as functions of the two maps          *)
(***************************************************************************)

NoError == <<>>

\* mutant of NotFoundError: the message names the input as given
NotFoundErrorRaw(nameOrId) == <<"Channel name not found: ", nameOrId>>

\* `Channel name not found: ${formatChannelName(nameOrId)}`
NotFoundError(nameOrId) ==
  <<"Channel name not found: ", formatChannelName(nameOrId)>>

\* `Channel name ${formatChannelName(name)} is already registered to
\* ${existingId}`
ConflictError(name, existingId) ==
  <<"Channel name ", formatChannelName(name), " is already registered to ",
    existingId>>

\* mutant of Resolve: the map is looked up with the input as given
ResolveUnnormalized(n2i, nameOrId) ==
  IF ~isChannelName(nameOrId)
  THEN [threw |-> FALSE, value |-> nameOrId, error |-> NoError]
  ELSE LET channelId == Get(n2i, nameOrId)
       IN  IF ~Truthy(channelId)
           THEN [threw |-> TRUE, value |-> Undefined,
                 error |-> NotFoundError(nameOrId)]
           ELSE [threw |-> FALSE, value |-> channelId, error |-> NoError]

\* resolve(nameOrId)
Resolve(n2i, nameOrId) ==
  IF ~isChannelName(nameOrId)
  THEN [threw |-> FALSE, value |-> nameOrId, error |-> NoError]
  ELSE LET normalized == normalizeChannelName(nameOrId)
           channelId == Get(n2i, normalized)
       IN  IF ~Truthy(channelId)
           THEN [threw |-> TRUE, value |-> Undefined,
                 error |-> NotFoundError(nameOrId)]
           ELSE [threw |-> FALSE, value |-> channelId, error |-> NoError]

\* resolveMany(namesOrIds): Promise.all over the promises of resolve, which
\* has no await and so settles each of them before Promise.all looks: the
\* values in the order of the input, or the error of the first promise
\* that is rejected, the one of lowest index
ResolveMany(n2i, namesOrIds) ==
  LET results == [i \in 1..Len(namesOrIds) |-> Resolve(n2i, namesOrIds[i])]
      failing == {i \in 1..Len(namesOrIds) : results[i].threw}
  IN  IF failing = {}
      THEN [threw |-> FALSE, error |-> NoError,
            value |-> [i \in 1..Len(namesOrIds) |-> results[i].value]]
      ELSE LET first == CHOOSE i \in failing : \A j \in failing : i <= j
           IN  [threw |-> TRUE, error |-> results[first].error,
                value |-> Undefined]

\* reverseLookup(channelId)
ReverseLookup(i2n, channelId) ==
  LET name == Get(i2n, channelId)
  IN  IF Truthy(name) THEN formatChannelName(name) ELSE Null

\* mutant of Register: no check of the id the name is already bound to
RegisterNoConflictCheck(n2i, i2n, name, channelId) ==
  LET normalized == normalizeChannelName(name)
      existingName == Get(i2n, channelId)
      n1 == IF Truthy(existingName) /\ existingName # normalized
            THEN Delete(n2i, existingName)
            ELSE n2i
  IN  [threw |-> FALSE, error |-> NoError,
       nameToId |-> Set(n1, normalized, channelId),
       idToName |-> Set(i2n, channelId, normalized)]

\* register(name, channelId)
Register(n2i, i2n, name, channelId) ==
  LET normalized == normalizeChannelName(name)
      existingId == Get(n2i, normalized)
      existingName == Get(i2n, channelId)
      n1 == IF Truthy(existingName) /\ existingName # normalized
            THEN Delete(n2i, existingName)
            ELSE n2i
  IN  IF Truthy(existingId) /\ existingId # channelId
      THEN [threw |-> TRUE, error |-> ConflictError(name, existingId),
            nameToId |-> n2i, idToName |-> i2n]
      ELSE [threw |-> FALSE, error |-> NoError,
            nameToId |-> Set(n1, normalized, channelId),
            idToName |-> Set(i2n, channelId, normalized)]

\* mutant of Unregister: the idToName entry is left behind
UnregisterForwardOnly(n2i, i2n, name) ==
  LET normalized == normalizeChannelName(name)
      channelId == Get(n2i, normalized)
  IN  IF Truthy(channelId)
      THEN [nameToId |-> Delete(n2i, normalized), idToName |-> i2n]
      ELSE [nameToId |-> n2i, idToName |-> i2n]

\* unregister that looks the name up as it was given
UnregisterUnnormalized(n2i, i2n, name) ==
  LET channelId == Get(n2i, name)
  IN  IF Truthy(channelId)
      THEN [nameToId |-> Delete(n2i, name),
            idToName |-> Delete(i2n, channelId)]
      ELSE [nameToId |-> n2i, idToName |-> i2n]

\* unregister(name)
Unregister(n2i, i2n, name) ==
  LET normalized == normalizeChannelName(name)
      channelId == Get(n2i, normalized)
  IN  IF Truthy(channelId)
      THEN [nameToId |-> Delete(n2i, normalized),
            idToName |-> Delete(i2n, channelId)]
      ELSE [nameToId |-> n2i, idToName |-> i2n]

\* list(): result.set(formatChannelName(name), channelId) for each entry of
\* nameToId. ListKeys are the keys of the Map returned; ListValues(key) are
\* the ids set under key, of which the Map holds the one set last in the
\* insertion order of nameToId, an order the model does not keep; List is
\* the set of the Maps list() can return
ListKeys(n2i) == {formatChannelName(name) : name \in DOMAIN n2i}
ListValues(n2i, key) ==
  {n2i[name] : name \in {n \in DOMAIN n2i : formatChannelName(n) = key}}
List(n2i) ==
  {result \in [ListKeys(n2i) -> {n2i[name] : name \in DOMAIN n2i}] :
     \A key \in ListKeys(n2i) : result[key] \in ListValues(n2i, key)}

\* export(): a Record holding the entries of nameToId
Export(n2i) == [name \in DOMAIN n2i |-> n2i[name]]

\* get size()
Size(n2i) == Cardinality(DOMAIN n2i)

\* the loop of import(data, merge) over Object.entries(data); data is the
\* sequence of the Record's <<name, channelId>> entries, in their order
RECURSIVE ImportEntries(_, _, _)
ImportEntries(n2i, i2n, data) ==
  IF data = <<>> THEN [nameToId |-> n2i, idToName |-> i2n]
  ELSE LET normalized == normalizeChannelName(data[1][1])
           channelId == data[1][2]
       IN  ImportEntries(Set(n2i, normalized, channelId),
                         Set(i2n, channelId, normalized), Tail(data))

\* import without the clear() of a replacing import
ImportAlwaysMerges(n2i, i2n, data, merge) == ImportEntries(n2i, i2n, data)

\* import that clears whatever merge says
ImportAlwaysClears(n2i, i2n, data, merge) ==
  ImportEntries(EmptyMap, EmptyMap, data)

\* import(data, merge)
Import(n2i, i2n, data, merge) ==
  IF merge THEN ImportEntries(n2i, i2n, data)
  ELSE ImportEntries(EmptyMap, EmptyMap, data)

\* clear()
Clear == [nameToId |-> EmptyMap, idToName |-> EmptyMap]

\* constructor(initialMappings): the same two set calls per entry, on new maps
RECURSIVE Constructor(_, _, _)
Constructor(n2i, i2n, initialMappings) ==
  IF initialMappings = <<>> THEN [nameToId |-> n2i, idToName |-> i2n]
  ELSE LET normalized == normalizeChannelName(initialMappings[1][1])
           channelId == initialMappings[1][2]
       IN  Constructor(Set(n2i, normalized, channelId),
                       Set(i2n, channelId, normalized), Tail(initialMappings))

(***************************************************************************)
(* PersistentChannelRegistry: the store                                    *)
(***************************************************************************)

\* What Storage.getItem(storageKey) yields: null when the key is absent
\* ("none"), else a text: the JSON of a Record ("json", with its members) or
\* a text JSON.parse rejects ("garbage").
NoItem == [raw |-> "none", members |-> <<>>]
Garbage == [raw |-> "garbage", members |-> <<>>]

\* JSON.stringify of a Record<string, string>
Stringify(record) == [raw |-> "json", members |-> record]

\* `if (stored)`: null is falsy, a non-empty text is truthy
StoredTruthy(text) == text.raw # "none"

\* JSON.parse(text): throws on a text that is not JSON
Parse(text) ==
  IF text.raw = "json"
  THEN [threw |-> FALSE, value |-> text.members]
  ELSE [threw |-> TRUE, value |-> <<>>]

\* Object.entries of a parsed Record: its entries, each key once. The order
\* is that of the JSON text, which the model does not keep: every order is
\* allowed.
Entries(record) ==
  LET keys == DOMAIN record
      n == Cardinality(keys)
      orders == {f \in [1..n -> keys] :
                   \A i, j \in 1..n : i # j => f[i] # f[j]}
  IN  {[i \in 1..n |-> <<f[i], record[f[i]]>>] : f \in orders}

\* whether the store yields a Record: a store, a text, and the text parses
Readable(hasStorage, text) ==
  hasStorage /\ StoredTruthy(text) /\ ~Parse(text).threw

\* the constructor's initialData, as the entry sequences super() may see;
\* no store, no text or a parse error leave initialData undefined
InitialData(hasStorage, text) ==
  IF Readable(hasStorage, text) THEN Entries(Parse(text).value) ELSE {<<>>}

\* mutant of Construct: the error of JSON.parse is not caught
ConstructNoCatch(hasStorage, text, initialData) ==
  LET built == Constructor(EmptyMap, EmptyMap, initialData)
  IN  [threw |-> hasStorage /\ StoredTruthy(text) /\ Parse(text).threw,
       nameToId |-> built.nameToId, idToName |-> built.idToName]

\* new PersistentChannelRegistry(), given the entries super() sees: the
\* try/catch around getItem and JSON.parse lets no error out
Construct(hasStorage, text, initialData) ==
  LET built == Constructor(EmptyMap, EmptyMap, initialData)
  IN  [threw |-> FALSE,
       nameToId |-> built.nameToId, idToName |-> built.idToName]

\* mutant of Reload: without a store the registry is emptied
ReloadClearsWithoutStore(n2i, i2n, hasStorage, text, entries) ==
  IF Readable(hasStorage, text)
  THEN Import(n2i, i2n, entries, FALSE)
  ELSE IF hasStorage
  THEN [nameToId |-> n2i, idToName |-> i2n]
  ELSE Clear

\* reload(), given the entries of the parsed text: import(parsed, false)
\* when the store yields a Record, nothing otherwise
Reload(n2i, i2n, hasStorage, text, entries) ==
  IF Readable(hasStorage, text)
  THEN Import(n2i, i2n, entries, FALSE)
  ELSE [nameToId |-> n2i, idToName |-> i2n]

ReloadEntries(hasStorage, text) ==
  IF Readable(hasStorage, text) THEN Entries(Parse(text).value) ELSE {<<>>}

(***************************************************************************)
(* SuiNSResolver                                                           *)
(***************************************************************************)

DotSui == <<".", "s", "u", "i">>

\* isSuiNSName without the toLowerCase call
isSuiNSNameCaseSensitive(input) == endsWith(input, DotSui)

\* isSuiNSName(input)
isSuiNSName(input) == endsWith(toLowerCase(input), DotSui)

\* the names the naming service is asked about
ASui == <<"a">> \o DotSui
UpperASui == <<"A", ".", "S", "U", "I">>
NSui == <<"n">> \o DotSui
TSui == <<"t">> \o DotSui
ESui == <<"e">> \o DotSui
USui == <<"u">> \o DotSui
SubSui == <<"a", ".">> \o ASui
BlankASui == <<" ">> \o ASui
ASuiBlank == ASui \o <<" ">>

AddressA == <<"0", "x", "a">>
AddressB == <<"0", "x", "b">>

\* the error of the naming service itself
ServiceError == <<"service unavailable">>

\* suinsClient.getNameRecord(name), as the service of the runs answers:
\* a record with a target address, no record, a record whose target
\* address is null or undefined, or an error of its own
getNameRecord(name) ==
  CASE name = ASui ->
         [threw |-> FALSE, error |-> NoError, present |-> TRUE,
          targetAddress |-> AddressA]
    [] name = UpperASui ->
         [threw |-> FALSE, error |-> NoError, present |-> TRUE,
          targetAddress |-> AddressB]
    [] name = SubSui ->
         [threw |-> FALSE, error |-> NoError, present |-> TRUE,
          targetAddress |-> AddressB]
    [] name = TSui ->
         [threw |-> FALSE, error |-> NoError, present |-> TRUE,
          targetAddress |-> Null]
    [] name = USui ->
         [threw |-> FALSE, error |-> NoError, present |-> TRUE,
          targetAddress |-> Undefined]
    [] name = ESui ->
         [threw |-> TRUE, error |-> ServiceError, present |-> FALSE,
          targetAddress |-> Undefined]
    [] OTHER ->
         [threw |-> FALSE, error |-> NoError, present |-> FALSE,
          targetAddress |-> Undefined]

\* `Failed to resolve SuiNS name: ${nameOrAddress}`
FailedToResolve(nameOrAddress) ==
  <<"Failed to resolve SuiNS name: ", nameOrAddress>>

\* mutant of ResolveRecord: the target address is returned untested
ResolveRecordNoTargetTest(nameOrAddress, answer) ==
  IF answer.threw
  THEN [status |-> "rejected", value |-> answer.error]
  ELSE IF ~answer.present
  THEN [status |-> "rejected", value |-> FailedToResolve(nameOrAddress)]
  ELSE [status |-> "fulfilled", value |-> answer.targetAddress]

\* mutant of ResolveRecord: an error of the service is replaced by the
\* resolver's own
ResolveRecordWrapsErrors(nameOrAddress, answer) ==
  IF answer.threw \/ ~answer.present \/ ~Truthy(answer.targetAddress)
  THEN [status |-> "rejected", value |-> FailedToResolve(nameOrAddress)]
  ELSE [status |-> "fulfilled", value |-> answer.targetAddress]

\* SuiNSResolver.resolve after `await getNameRecord(nameOrAddress)`: how
\* its promise settles on the answer
ResolveRecord(nameOrAddress, answer) ==
  IF answer.threw
  THEN [status |-> "rejected", value |-> answer.error]
  ELSE IF ~answer.present \/ ~Truthy(answer.targetAddress)
  THEN [status |-> "rejected", value |-> FailedToResolve(nameOrAddress)]
  ELSE [status |-> "fulfilled", value |-> answer.targetAddress]

\* SuiNSResolver.resolve up to its first await: an input that is not a
\* SuiNS name is returned, for a SuiNS name the lookup is in flight
ResolveStart(nameOrAddress) ==
  IF ~isSuiNSName(nameOrAddress)
  THEN [status |-> "fulfilled", value |-> nameOrAddress]
  ELSE [status |-> "pending", value |-> Undefined]

\* mutant of LookupKey: the name is trimmed and lower-cased first
LookupKeyNormalized(nameOrAddress) == toLowerCase(trim(nameOrAddress))

\* the argument of getNameRecord: nameOrAddress as it was given
LookupKey(nameOrAddress) == nameOrAddress

\* mutant of Lookups: the service is asked about every input
LookupsAlways(nameOrAddress) == <<LookupKey(nameOrAddress)>>

\* the getNameRecord calls of one resolve call, by their arguments: none
\* for an input that is not a SuiNS name, one for a SuiNS name
Lookups(nameOrAddress) ==
  IF ~isSuiNSName(nameOrAddress) THEN <<>> ELSE <<LookupKey(nameOrAddress)>>

\* a resolve or resolveMany call: which of the two, its input, the
\* promises of the resolve calls, the lookups sent to the service,
\* Promise.all's state (the values array, the count of elements not yet
\* fulfilled), how the promise of the call settled, and the indices of the
\* elements in the order their lookups completed
NoBatch ==
  [state |-> "idle", inputs |-> <<>>, elems |-> <<>>, lookups |-> <<>>,
   values |-> <<>>, remaining |-> 0, result |-> <<>>, order |-> <<>>,
   call |-> "none"]

\* the getNameRecord calls made for the first n inputs, in order
RECURSIVE LookupsOf(_, _)
LookupsOf(inputs, n) ==
  IF n = 0 THEN <<>>
  ELSE LookupsOf(inputs, n - 1) \o Lookups(inputs[n])

\* resolve(nameOrAddress), called on its own: its promise is the promise
\* of the call
StartResolve(nameOrAddress) ==
  LET started == ResolveStart(nameOrAddress)
  IN  [state |-> started.status,
       inputs |-> <<nameOrAddress>>, elems |-> <<started>>,
       lookups |-> Lookups(nameOrAddress),
       values |-> <<>>, remaining |-> 0, result |-> started.value,
       order |-> <<>>, call |-> "resolve"]

\* resolveMany(namesOrAddresses): map calls resolve on each element in
\* order, Promise.all collects the promises
StartBatch(inputs) ==
  LET elems == [i \in 1..Len(inputs) |-> ResolveStart(inputs[i])]
      values == [i \in 1..Len(inputs) |-> elems[i].value]
      remaining ==
        Cardinality({i \in 1..Len(inputs) : elems[i].status = "pending"})
  IN  [state |-> IF remaining = 0 THEN "fulfilled" ELSE "pending",
       inputs |-> inputs, elems |-> elems,
       lookups |-> LookupsOf(inputs, Len(inputs)),
       values |-> values, remaining |-> remaining,
       result |-> IF remaining = 0 THEN values ELSE <<>>,
       order |-> <<>>, call |-> "resolveMany"]

\* mutant of Fulfil: the value goes to the next free place of the values
\* array, in the order the promises are fulfilled
FulfilInCompletionOrder(b, i, x) ==
  LET place == Len(b.inputs) - b.remaining + 1
      values == [b.values EXCEPT ![place] = x]
      remaining == b.remaining - 1
      settles == b.state = "pending" /\ remaining = 0
  IN  [b EXCEPT !.elems[i] = [status |-> "fulfilled", value |-> x],
                !.order = Append(@, i),
                !.values = values,
                !.remaining = remaining,
                !.state = IF settles THEN "fulfilled" ELSE @,
                !.result = IF settles THEN values ELSE @]

\* Promise.all's resolve element function of index i, called with x: the
\* value is stored at index i; the last one fulfils the promise with the
\* values array
Fulfil(b, i, x) ==
  LET values == [b.values EXCEPT ![i] = x]
      remaining == b.remaining - 1
      settles == b.state = "pending" /\ remaining = 0
  IN  [b EXCEPT !.elems[i] = [status |-> "fulfilled", value |-> x],
                !.order = Append(@, i),
                !.values = values,
                !.remaining = remaining,
                !.state = IF settles THEN "fulfilled" ELSE @,
                !.result = IF settles THEN values ELSE @]

\* mutant of Reject: the promise is rejected once no lookup is in flight
RejectWhenAllSettled(b, i, e) ==
  LET inFlight == {j \in 1..Len(b.inputs) :
                     j # i /\ b.elems[j].status = "pending"}
      settles == b.state = "pending" /\ inFlight = {}
  IN  [b EXCEPT !.elems[i] = [status |-> "rejected", value |-> e],
                !.order = Append(@, i),
                !.state = IF settles THEN "rejected" ELSE @,
                !.result = IF settles THEN e ELSE @]

\* Promise.all's reject function, called with e when the promise of
\* index i is rejected: the first call rejects the promise
Reject(b, i, e) ==
  LET settles == b.state = "pending"
  IN  [b EXCEPT !.elems[i] = [status |-> "rejected", value |-> e],
                !.order = Append(@, i),
                !.state = IF settles THEN "rejected" ELSE @,
                !.result = IF settles THEN e ELSE @]

\* the argument of the getNameRecord call made for element i
KeyOf(b, i) ==
  b.lookups[Cardinality({j \in 1..i : Lookups(b.inputs[j]) # <<>>})]

\* a resolve call on its own settles as its lookup does
SettleResolve(b, settled) ==
  [b EXCEPT !.elems[1] = settled,
            !.order = Append(@, 1),
            !.state = settled.status,
            !.result = settled.value]

\* the lookup of element i completes
CompleteLookup(b, i) ==
  LET settled == ResolveRecord(b.inputs[i], getNameRecord(KeyOf(b, i)))
  IN  IF b.call = "resolve"
      THEN SettleResolve(b, settled)
      ELSE IF settled.status = "fulfilled"
      THEN Fulfil(b, i, settled.value)
      ELSE Reject(b, i, settled.value)

(***************************************************************************)
(* Inputs                                                                  *)
(***************************************************************************)

Id1 == <<"0", "x", "1">>
Id2 == <<"0", "x", "2">>

\* channel ids handed to register / reverseLookup: the code takes any
\* string, the empty one included
Ids == {<<>>, Id1, Id2}

\* the ids among them that are canonical identifiers ('0x...')
CanonicalIds == {id \in Ids : startsWith(id, ZeroX)}

\* names handed to register / unregister: '#', 'a', '#A', 'b'
Names == {<<"#">>, <<"a">>, <<"#", "A">>, <<"b">>}

\* inputs of resolve: the names, '', ' a ', an id, and that id after a blank
ResolveInputs ==
  Names \cup {<<>>, <<" ", "a", " ">>, Id1, <<" ">> \o Id1}

\* the entries the Records handed to import are made of: 'a' and '#A' are
\* two keys of one Record that normalize alike, 'a' and 'b' carry one id
ImportPairs == {<<<<"a">>, Id1>>, <<<<"#", "A">>, Id2>>, <<<<"b">>, Id1>>}

MaxImport == 2

\* the entry sequences of Records of at most MaxImport entries: the keys of
\* a Record are pairwise distinct
Records ==
  {d \in UNION {[1..n -> ImportPairs] : n \in 0..MaxImport} :
     \A i, j \in 1..Len(d) : i # j => d[i][1] # d[j][1]}

\* the inputs of a PersistentChannelRegistry, whose state includes the
\* store, and of the registry resolveMany is called on
PersistentNames == {<<"a">>, <<"#", "A">>, <<"b">>}
PersistentIds == {Id1, Id2}
PersistentResolveInputs == PersistentNames \cup {Id1}
PersistentRecords == {d \in Records : Len(d) <= 1}

\* the inputs of a registry constructed with initial mappings: a bare name,
\* a prefixed upper-case name, and a name with two '#'
KeyNames == {<<"a">>, <<"#", "B">>, <<"#", "#", "a">>}
KeyPairs == {<<name, id>> : name \in KeyNames, id \in CanonicalIds}
KeyRecords ==
  {d \in UNION {[1..n -> KeyPairs] : n \in 0..MaxImport} :
     \A i, j \in 1..Len(d) : i # j => d[i][1] # d[j][1]}

\* the elements of the arrays handed to LocalChannelRegistry.resolveMany:
\* a name, another name, and an id
BatchInputs == {<<"#", "A">>, <<"b">>, Id1}

\* the elements of the arrays handed to SuiNSResolver.resolveMany
SuiNSInputs == {ASui, UpperASui, NSui, ESui, Id1}

\* the inputs of SuiNSResolver.resolve: names in both cases, a subdomain,
\* a name after a blank and one before a blank, names the service has no
\* record or no target address for or fails on, an address, and ''
SuiNSNames ==
  {ASui, UpperASui, SubSui, BlankASui, ASuiBlank, NSui, TSui, USui, ESui,
   DotSui, Id1, <<>>}

MaxBatch == 3

\* the arrays of at most MaxBatch elements
Batches(elements) == UNION {[1..n -> elements] : n \in 0..MaxBatch}

\* the characters of the strings handed to the string functions: the
\* presentation prefix, a blank, a letter in both cases, and '0', 'x'
Alphabet == {"#", " ", "a", "A", "0", "x"}

MaxLen == 3

\* every string of at most MaxLen characters of the alphabet
Strings == UNION {[1..n -> Alphabet] : n \in 0..MaxLen}

\* what the store may hold when a PersistentChannelRegistry is constructed
InitialStored == {NoItem, Garbage, Stringify(<<"a">> :> Id1)}

\* the strings handed to isSuiNSName: '', and each of a few beginnings (none,
\* a label, a subdomain, a blank) followed by each of a few endings (the
\* suffix in three letter cases, the suffix without its dot, cut short, and
\* followed by a blank, a letter or a dot)
SuiBeginnings == {<<>>, <<"a">>, <<"b", ".", "a">>, <<" ">>}
SuiEndings ==
  {DotSui, <<".", "S", "U", "I">>, <<".", "S", "u", "i">>, <<"s", "u", "i">>,
   <<".", "s", "u">>, DotSui \o <<" ">>, DotSui \o <<"x">>,
   DotSui \o <<".">>, <<"s", "u", "i", ".", "a">>}
SuiStrings == {<<>>} \cup {b \o e : b \in SuiBeginnings, e \in SuiEndings}

(***************************************************************************)
(* State machine                                                           *)
(***************************************************************************)

\* the last call: its method and arguments, whether it threw and with what
\* error, what it returned, whether it called Storage.setItem, whether it
\* changed one of the two maps, and whether its setItem threw
Call(op, name, id, threw, error, result, wrote, changed) ==
  [op |-> op, name |-> name, id |-> id, threw |-> threw, error |-> error,
   result |-> result, wrote |-> wrote, changed |-> changed,
   failed |-> FALSE, merge |-> FALSE]

\* the record of an import call: name holds its data, merge its flag
Importing(call, data, merge) ==
  [call EXCEPT !.name = data, !.merge = merge]

\* the record of a call whose Storage.setItem threw inside #persist()
Failing(call, failed) == [call EXCEPT !.failed = failed]

NoCall == Call("new", <<>>, <<>>, FALSE, NoError, Undefined, FALSE, FALSE)

\* whether r holds other maps than the registry does
Changes(r) == r.nameToId # nameToId \/ r.idToName # idToName

\* new LocalChannelRegistry(), its callers drawing their inputs from u
LocalInit(u) ==
  /\ kind = "Local"
  /\ storage = FALSE
  /\ stored = NoItem
  /\ nameToId = EmptyMap
  /\ idToName = EmptyMap
  /\ last = NoCall
  /\ calls = <<>>
  /\ universe = u
  /\ batch = NoBatch

\* new LocalChannelRegistry(initialMappings): the record of the construction
\* holds the initial mappings
InitConstructed ==
  /\ kind = "Local"
  /\ storage = FALSE
  /\ stored = NoItem
  /\ \E initialMappings \in KeyRecords :
       LET built == Constructor(EmptyMap, EmptyMap, initialMappings)
       IN  /\ nameToId = built.nameToId
           /\ idToName = built.idToName
           /\ last = [NoCall EXCEPT !.name = initialMappings]
  /\ calls = <<>>
  /\ universe = "keys"
  /\ batch = NoBatch

\* callers that pass channel object ids ('0x...') as channel ids, as the
\* interface documents them
InitLocal == LocalInit("canonical")

\* callers that pass any string as a channel id, the empty one included
InitAnyId == LocalInit("any")

\* new PersistentChannelRegistry(): localStorage present or not, the maps
\* built by super(initialData)
PersistentInit(u, storages) ==
  /\ kind = "Persistent"
  /\ storage \in storages
  /\ stored \in (IF storage THEN InitialStored ELSE {NoItem})
  /\ \E initialData \in InitialData(storage, stored) :
       LET built == Constructor(EmptyMap, EmptyMap, initialData)
       IN  /\ nameToId = built.nameToId
           /\ idToName = built.idToName
  /\ last = NoCall
  /\ calls = <<>>
  /\ universe = u
  /\ batch = NoBatch

InitPersistent == PersistentInit("persistent", BOOLEAN)

\* new PersistentChannelRegistry() where localStorage is present and no
\* setItem of the run throws
InitStore == PersistentInit("store", {TRUE})

\* the same, its callers drawing their names from Names, '#' included
InitRehydrate == PersistentInit("rehydrate", {TRUE})

\* the inputs the calls are drawn from
SmallUniverses == {"persistent", "store", "batch"}

NamesOf(u) ==
  CASE u \in SmallUniverses -> PersistentNames
    [] u = "keys" -> KeyNames
    [] OTHER -> Names
IdsOf(u) ==
  CASE u \in SmallUniverses -> PersistentIds
    [] u \in {"canonical", "rehydrate", "keys"} -> CanonicalIds
    [] OTHER -> Ids
RecordsOf(u) ==
  CASE u \in SmallUniverses -> PersistentRecords
    [] u = "keys" -> KeyRecords
    [] OTHER -> Records
ResolveInputsOf(u) ==
  CASE u \in SmallUniverses -> PersistentResolveInputs
    [] u = "keys" -> KeyNames \cup {Id1}
    [] OTHER -> ResolveInputs

\* #persist() reaches setItem only when there is a store
CallsSetItem == kind = "Persistent" /\ storage

\* the runs in which no setItem throws
WritesSucceed(u) == u \in {"store", "rehydrate", "atomic", "concurrent"}

\* setItem may throw (quota exceeded); #persist() swallows it
WriteOutcomes ==
  IF CallsSetItem /\ ~WritesSucceed(universe) THEN BOOLEAN ELSE {TRUE}

\* #persist() with nameToId being n2i: what the store holds afterwards
Persist(n2i, succeeds) ==
  IF CallsSetItem /\ succeeds THEN Stringify(Export(n2i)) ELSE stored

\* mutant of RegisterOutcome: #persist() runs before super.register
RegisterOutcomeWriteFirst(name, channelId, succeeds) ==
  LET r == Register(nameToId, idToName, name, channelId)
  IN  [nameToId |-> r.nameToId, idToName |-> r.idToName,
       stored |-> IF r.threw THEN stored ELSE Persist(nameToId, succeeds),
       threw |-> r.threw, error |-> r.error,
       wrote |-> ~r.threw /\ CallsSetItem,
       failed |-> ~r.threw /\ CallsSetItem /\ ~succeeds]

\* register(name, channelId), of either class: the maps and the store it
\* leaves and what it reports. PersistentChannelRegistry.register awaits
\* super.register, so a throw skips #persist().
RegisterOutcome(name, channelId, succeeds) ==
  LET r == Register(nameToId, idToName, name, channelId)
  IN  [nameToId |-> r.nameToId, idToName |-> r.idToName,
       stored |-> IF r.threw THEN stored ELSE Persist(r.nameToId, succeeds),
       threw |-> r.threw, error |-> r.error,
       wrote |-> ~r.threw /\ CallsSetItem,
       failed |-> ~r.threw /\ CallsSetItem /\ ~succeeds]

\* mutant of UnregisterOutcome: a setItem that throws undoes the mutation
UnregisterOutcomeRollsBack(name, succeeds) ==
  LET r == Unregister(nameToId, idToName, name)
      failed == CallsSetItem /\ ~succeeds
  IN  [nameToId |-> IF failed THEN nameToId ELSE r.nameToId,
       idToName |-> IF failed THEN idToName ELSE r.idToName,
       stored |-> Persist(r.nameToId, succeeds),
       threw |-> FALSE, error |-> NoError, wrote |-> CallsSetItem,
       failed |-> failed]

\* unregister(name), of either class
UnregisterOutcome(name, succeeds) ==
  LET r == Unregister(nameToId, idToName, name)
  IN  [nameToId |-> r.nameToId, idToName |-> r.idToName,
       stored |-> Persist(r.nameToId, succeeds),
       threw |-> FALSE, error |-> NoError, wrote |-> CallsSetItem,
       failed |-> CallsSetItem /\ ~succeeds]

\* one register call and its record
RegisterStep(name, channelId, succeeds) ==
  LET r == RegisterOutcome(name, channelId, succeeds)
  IN  /\ nameToId' = r.nameToId
      /\ idToName' = r.idToName
      /\ stored' = r.stored
      /\ last' = Failing(Call("register", name, channelId, r.threw,
                              r.error, Undefined, r.wrote, Changes(r)),
                         r.failed)
      /\ UNCHANGED <<batch, universe, kind, storage>>

RegisterCall ==
  \E name \in NamesOf(universe), channelId \in IdsOf(universe),
     succeeds \in WriteOutcomes :
    /\ RegisterStep(name, channelId, succeeds)
    /\ UNCHANGED calls

\* the names and ids of the register calls made so far in a run of
\* register calls with pairwise distinct names and pairwise distinct ids
CalledNames == {calls[i].name : i \in 1..Len(calls)}
CalledIds == {calls[i].id : i \in 1..Len(calls)}

\* register with a name and an id no earlier call of the run used
RegisterFreshCall ==
  \E name \in NamesOf(universe) \ CalledNames,
     channelId \in IdsOf(universe) \ CalledIds,
     succeeds \in WriteOutcomes :
    /\ RegisterStep(name, channelId, succeeds)
    /\ calls' = Append(calls, [name |-> name, id |-> channelId,
                               threw |-> last'.threw])

UnregisterCall ==
  \E name \in NamesOf(universe), succeeds \in WriteOutcomes :
    LET r == UnregisterOutcome(name, succeeds)
    IN  /\ nameToId' = r.nameToId
        /\ idToName' = r.idToName
        /\ stored' = r.stored
        /\ last' = Failing(Call("unregister", name, <<>>, r.threw,
                                r.error, Undefined, r.wrote, Changes(r)),
                           r.failed)
        /\ UNCHANGED <<batch, universe, calls, kind, storage>>

ResolveCall ==
  \E nameOrId \in ResolveInputsOf(universe) :
    LET r == Resolve(nameToId, nameOrId)
    IN  /\ last' = Call("resolve", nameOrId, <<>>, r.threw, r.error,
                        r.value, FALSE, FALSE)
        /\ UNCHANGED <<batch, universe, calls, kind, storage, stored,
                       nameToId, idToName>>

ReverseLookupCall ==
  \E channelId \in IdsOf(universe) :
    /\ last' = Call("reverseLookup", <<>>, channelId, FALSE, NoError,
                    ReverseLookup(idToName, channelId), FALSE, FALSE)
    /\ UNCHANGED <<batch, universe, calls, kind, storage, stored,
                   nameToId, idToName>>

\* import is not overridden by PersistentChannelRegistry: no #persist()
ImportCall ==
  \E data \in RecordsOf(universe), merge \in BOOLEAN :
    LET r == Import(nameToId, idToName, data, merge)
    IN  /\ nameToId' = r.nameToId
        /\ idToName' = r.idToName
        /\ last' = Importing(Call("import", <<>>, <<>>, FALSE, NoError,
                                  Undefined, FALSE, Changes(r)),
                             data, merge)
        /\ UNCHANGED <<batch, universe, calls, kind, storage, stored>>

\* clear is not overridden either
ClearCall ==
  /\ nameToId' = Clear.nameToId
  /\ idToName' = Clear.idToName
  /\ last' = Call("clear", <<>>, <<>>, FALSE, NoError, Undefined, FALSE,
                  Changes(Clear))
  /\ UNCHANGED <<batch, universe, calls, kind, storage, stored>>

\* save()
SaveCall ==
  /\ kind = "Persistent"
  /\ \E succeeds \in WriteOutcomes :
       /\ stored' = Persist(nameToId, succeeds)
       /\ last' = Failing(Call("save", <<>>, <<>>, FALSE, NoError,
                               Undefined, CallsSetItem, FALSE),
                          CallsSetItem /\ ~succeeds)
  /\ UNCHANGED <<batch, universe, calls, kind, storage, nameToId, idToName>>

\* reload()
ReloadCall ==
  /\ kind = "Persistent"
  /\ \E entries \in ReloadEntries(storage, stored) :
       LET r == Reload(nameToId, idToName, storage, stored, entries)
       IN  /\ nameToId' = r.nameToId
           /\ idToName' = r.idToName
           /\ last' = Call("reload", <<>>, <<>>, FALSE, NoError, Undefined,
                           FALSE, Changes(r))
  /\ UNCHANGED <<batch, universe, calls, kind, storage, stored>>

\* new SuiNSResolver(suinsClient)
InitSuiNS ==
  /\ kind = "SuiNS"
  /\ storage = FALSE
  /\ stored = NoItem
  /\ nameToId = EmptyMap
  /\ idToName = EmptyMap
  /\ last = NoCall
  /\ calls = <<>>
  /\ universe = "suins"
  /\ batch = NoBatch

\* register and unregister on a LocalChannelRegistry
LocalRegisterCall == kind = "Local" /\ RegisterCall

LocalUnregisterCall == kind = "Local" /\ UnregisterCall

\* LocalChannelRegistry.resolveMany(namesOrIds)
ResolveManyCall ==
  /\ kind = "Local"
  /\ \E namesOrIds \in Batches(BatchInputs) :
       LET r == ResolveMany(nameToId, namesOrIds)
       IN  last' = [Call("resolveMany", <<>>, <<>>, r.threw, r.error,
                         r.value, FALSE, FALSE)
                    EXCEPT !.name = namesOrIds]
  /\ UNCHANGED <<batch, universe, calls, kind, storage, stored, nameToId,
                 idToName>>

\* SuiNSResolver.resolveMany(namesOrAddresses): the one call of the run
SuiNSResolveManyCall ==
  /\ kind = "SuiNS"
  /\ batch.state = "idle"
  /\ \E namesOrAddresses \in Batches(SuiNSInputs) :
       batch' = StartBatch(namesOrAddresses)
  /\ UNCHANGED <<last, universe, calls, kind, storage, stored, nameToId,
                 idToName>>

\* SuiNSResolver.resolve(nameOrAddress): the one call of the run
SuiNSResolveCall ==
  /\ kind = "SuiNS"
  /\ batch.state = "idle"
  /\ \E nameOrAddress \in SuiNSNames :
       batch' = StartResolve(nameOrAddress)
  /\ UNCHANGED <<last, universe, calls, kind, storage, stored, nameToId,
                 idToName>>

\* the service answers one of the lookups in flight, in any order
LookupCompletes ==
  /\ kind = "SuiNS"
  /\ \E i \in 1..Len(batch.elems) :
       /\ batch.elems[i].status = "pending"
       /\ batch' = CompleteLookup(batch, i)
  /\ UNCHANGED <<last, universe, calls, kind, storage, stored, nameToId,
                 idToName>>

\* normalizeChannelName(name), called on its own
NormalizeCall ==
  \E name \in Strings :
    /\ last' = Call("normalizeChannelName", name, <<>>, FALSE, NoError,
                    normalizeChannelName(name), FALSE, FALSE)
    /\ UNCHANGED <<batch, universe, calls, kind, storage, stored,
                   nameToId, idToName>>

\* new PersistentChannelRegistry() with the same storage key, in place of
\* the instance there was: the maps are built from what the store holds
ConstructCall ==
  /\ kind = "Persistent"
  /\ \E initialData \in InitialData(storage, stored) :
       LET r == Construct(storage, stored, initialData)
       IN  /\ nameToId' = r.nameToId
           /\ idToName' = r.idToName
           /\ last' = Call("constructor", <<>>, <<>>, r.threw, NoError,
                           Undefined, FALSE, Changes(r))
  /\ UNCHANGED <<batch, universe, calls, kind, storage, stored>>

\* a LocalChannelRegistry, from new LocalChannelRegistry(), and its calls
Next ==
  \/ RegisterCall
  \/ UnregisterCall
  \/ ResolveCall
  \/ ReverseLookupCall
  \/ ImportCall
  \/ ClearCall

Spec == InitLocal /\ [][Next]_vars

\* an empty LocalChannelRegistry driven by register and unregister alone
NextRegisterUnregister ==
  \/ RegisterCall
  \/ UnregisterCall

SpecRegisterUnregister == InitLocal /\ [][NextRegisterUnregister]_vars

\* the same calls as Spec, with any string as a channel id
SpecAnyId == InitAnyId /\ [][Next]_vars

\* a PersistentChannelRegistry, with or without a store
NextPersistent ==
  \/ RegisterCall
  \/ UnregisterCall
  \/ ResolveCall
  \/ ReverseLookupCall
  \/ ImportCall
  \/ ClearCall
  \/ SaveCall
  \/ ReloadCall
  \/ ConstructCall

SpecPersistent == InitPersistent /\ [][NextPersistent]_vars

\* a PersistentChannelRegistry with a store whose setItem never throws
SpecStore == InitStore /\ [][NextPersistent]_vars

\* a PersistentChannelRegistry with a store whose setItem never throws,
\* driven by register and unregister, rehydrated by reload() or by a new
\* instance
NextRehydrate ==
  \/ RegisterCall
  \/ UnregisterCall
  \/ ReloadCall
  \/ ConstructCall

SpecRehydrate == InitRehydrate /\ [][NextRehydrate]_vars

\* resolveMany of either class: a LocalChannelRegistry driven by register
\* and unregister, or a SuiNSResolver and the lookups of its call
InitResolveMany == LocalInit("batch") \/ InitSuiNS

NextResolveMany ==
  \/ LocalRegisterCall
  \/ LocalUnregisterCall
  \/ ResolveManyCall
  \/ SuiNSResolveManyCall
  \/ LookupCompletes

SpecResolveMany == InitResolveMany /\ [][NextResolveMany]_vars

\* a SuiNSResolver, one resolve or resolveMany call, and its lookups
NextSuiNS ==
  \/ SuiNSResolveCall
  \/ SuiNSResolveManyCall
  \/ LookupCompletes

SpecSuiNS == InitSuiNS /\ [][NextSuiNS]_vars

\* an empty LocalChannelRegistry driven by register calls whose names are
\* pairwise distinct and whose ids are pairwise distinct, and queried
NextRoundTrip ==
  \/ RegisterFreshCall
  \/ ResolveCall
  \/ ReverseLookupCall

SpecRoundTrip == InitLocal /\ [][NextRoundTrip]_vars

\* isChannelName(input), called on its own
IsChannelNameCall ==
  \E input \in Strings :
    /\ last' = Call("isChannelName", input, <<>>, FALSE, NoError,
                    isChannelName(input), FALSE, FALSE)
    /\ UNCHANGED <<batch, universe, calls, kind, storage, stored,
                   nameToId, idToName>>

\* isSuiNSName(input), called on its own
IsSuiNSNameCall ==
  \E input \in SuiStrings :
    /\ last' = Call("isSuiNSName", input, <<>>, FALSE, NoError,
                    isSuiNSName(input), FALSE, FALSE)
    /\ UNCHANGED <<batch, universe, calls, kind, storage, stored,
                   nameToId, idToName>>

\* list()
ListCall ==
  \E result \in List(nameToId) :
    /\ last' = Call("list", <<>>, <<>>, FALSE, NoError, result, FALSE, FALSE)
    /\ UNCHANGED <<batch, universe, calls, kind, storage, stored,
                   nameToId, idToName>>

\* a LocalChannelRegistry constructed with initial mappings, then register,
\* import, resolve and list calls
NextConstructed ==
  \/ RegisterCall
  \/ ImportCall
  \/ ResolveCall
  \/ ListCall

SpecConstructed == InitConstructed /\ [][NextConstructed]_vars

(***************************************************************************)
(* Calls in flight: every method body runs to completion on the one        *)
(* thread, statement by statement, and gives way to another call only at   *)
(* an await                                                                *)
(***************************************************************************)

\* how many calls may be in flight at once
MaxPending == 2

\* a call in flight: its method and arguments, the statement it is at (pc),
\* the entries its import loop has left (rest), the alias and the id its
\* statements write (key, channelId), and what export() serialized to when
\* its changes to the maps were complete (snapshot)
Pending(op, name, id, data, merge, pc) ==
  [op |-> op, name |-> name, id |-> id, data |-> data, merge |-> merge,
   pc |-> pc, rest |-> data, key |-> normalizeChannelName(name),
   channelId |-> id, snapshot |-> NoItem]

\* the names, ids and Records of the calls that may be started
InFlightNames == {<<"#", "A">>, <<"b">>}
InFlightIds == {Id1, Id2}
InFlightRecords == {<<>>, <<<<<<"b">>, Id1>>>>}

\* the arguments of the calls that may be started
Startable(u) ==
  {Pending("register", name, id, <<>>, FALSE, "start") :
     name \in InFlightNames, id \in InFlightIds}
  \cup {Pending("unregister", name, <<>>, <<>>, FALSE, "start") :
          name \in InFlightNames}
  \cup (IF u = "atomic"
        THEN {Pending("clear", <<>>, <<>>, <<>>, FALSE, "start")}
             \cup {Pending("import", <<>>, <<>>, data, merge, "start") :
                     data \in InFlightRecords, merge \in BOOLEAN}
        ELSE {})

\* a suspension with the second write of a pair still to come
SuspensionPointBetweenWrites(call) ==
  call.pc \in {"await", "setId", "deleteId", "clearIds"}

\* where a call in flight has given way to the other calls: at the
\* `await super.register(...)` or `await super.unregister(...)` of
\* PersistentChannelRegistry, the only awaits of the two classes
SuspensionPoint(call) == call.pc = "await"

\* the statement after the last write of register or unregister: the await
\* of the PersistentChannelRegistry method, or the return of the
\* LocalChannelRegistry one
AfterMutation == IF kind = "Persistent" THEN "await" ELSE "return"

\* the synchronous start of a call, up to its first write: register's
\* conflict test, unregister's lookup, import's merge test
FirstStatement(call, n2i) ==
  CASE call.op = "register" ->
         LET existingId == Get(n2i, call.key)
         IN  IF Truthy(existingId) /\ existingId # call.id
             THEN [call EXCEPT !.pc = "throw"]
             ELSE [call EXCEPT !.pc = "rename"]
    [] call.op = "unregister" ->
         LET channelId == Get(n2i, call.key)
         IN  IF Truthy(channelId)
             THEN [call EXCEPT !.pc = "deleteName", !.channelId = channelId]
             ELSE [call EXCEPT !.pc = AfterMutation]
    [] call.op = "clear" -> [call EXCEPT !.pc = "clearNames"]
    [] OTHER ->
         IF call.merge THEN [call EXCEPT !.pc = "loop"]
         ELSE [call EXCEPT !.pc = "clearNames"]

\* the head of import's loop: the next entry, or the end of the method
LoopHead(call) ==
  IF call.rest = <<>> THEN [call EXCEPT !.pc = "return"]
  ELSE [call EXCEPT !.pc = "setName",
                    !.key = normalizeChannelName(call.rest[1][1]),
                    !.channelId = call.rest[1][2],
                    !.rest = Tail(call.rest)]

\* one statement of a call in flight: at most one write to one map
Statement(call, n2i, i2n) ==
  CASE call.pc = "rename" ->
         LET existingName == Get(i2n, call.id)
         IN  [nameToId |-> IF Truthy(existingName) /\ existingName # call.key
                           THEN Delete(n2i, existingName)
                           ELSE n2i,
              idToName |-> i2n,
              call |-> [call EXCEPT !.pc = "setName"]]
    [] call.pc = "setName" ->
         [nameToId |-> Set(n2i, call.key, call.channelId),
          idToName |-> i2n,
          call |-> [call EXCEPT !.pc = "setId"]]
    [] call.pc = "setId" ->
         [nameToId |-> n2i,
          idToName |-> Set(i2n, call.channelId, call.key),
          call |-> IF call.op = "import" THEN LoopHead(call)
                   ELSE [call EXCEPT !.pc = AfterMutation]]
    [] call.pc = "deleteName" ->
         [nameToId |-> Delete(n2i, call.key),
          idToName |-> i2n,
          call |-> [call EXCEPT !.pc = "deleteId"]]
    [] call.pc = "deleteId" ->
         [nameToId |-> n2i,
          idToName |-> Delete(i2n, call.channelId),
          call |-> [call EXCEPT !.pc = AfterMutation]]
    [] call.pc = "clearNames" ->
         [nameToId |-> EmptyMap,
          idToName |-> i2n,
          call |-> [call EXCEPT !.pc = "clearIds"]]
    [] call.pc = "clearIds" ->
         [nameToId |-> n2i,
          idToName |-> EmptyMap,
          call |-> IF call.op = "import" THEN LoopHead(call)
                   ELSE [call EXCEPT !.pc = "return"]]
    [] OTHER ->
         [nameToId |-> n2i, idToName |-> i2n, call |-> LoopHead(call)]

\* the maps a whole call leaves, given the maps m it was started on
WholeCall(call, m) ==
  CASE call.op = "register" ->
         LET r == Register(m.nameToId, m.idToName, call.name, call.id)
         IN  [nameToId |-> r.nameToId, idToName |-> r.idToName]
    [] call.op = "unregister" ->
         Unregister(m.nameToId, m.idToName, call.name)
    [] call.op = "clear" -> Clear
    [] OTHER -> Import(m.nameToId, m.idToName, call.data, call.merge)

\* the maps left by the calls whose changes to the maps are complete, each
\* taken whole, in the order they completed
WholeMaps == last.result

\* #persist() writing what the call serialized when its changes were made
WrittenAtMutation(call, n2i) == call.snapshot

\* the text #persist() hands to setItem: JSON.stringify(this.export()),
\* evaluated when #persist() runs
Written(call, n2i) == Stringify(Export(n2i))

\* the calls in flight without the one at position i
Without(i) == [j \in 1..(Len(calls) - 1) |-> calls[IF j < i THEN j ELSE j + 1]]

\* the calls in flight once the call at position i has become call
Settle(i, call) ==
  IF call.pc = "return" THEN Without(i) ELSE [calls EXCEPT ![i] = call]

\* the record of a step of a call in flight, with the whole maps so far
Step(call, threw, wrote, whole) ==
  Call(call.op, <<>>, <<>>, threw, NoError, whole, wrote, FALSE)

\* a new PersistentChannelRegistry with a store, or a new
\* LocalChannelRegistry, and no call in flight
InitInFlight(u, kinds) ==
  /\ kind \in kinds
  /\ storage = (kind = "Persistent")
  /\ stored \in (IF storage THEN InitialStored ELSE {NoItem})
  /\ \E initialData \in InitialData(storage, stored) :
       LET built == Constructor(EmptyMap, EmptyMap, initialData)
       IN  /\ nameToId = built.nameToId
           /\ idToName = built.idToName
           /\ last = [NoCall EXCEPT !.result = built]
  /\ calls = <<>>
  /\ universe = u
  /\ batch = NoBatch

\* a caller starts a call: the method runs up to its first write, and a
\* register that finds a conflict throws there
CallStarts ==
  /\ Len(calls) < MaxPending
  /\ \A j \in 1..Len(calls) : SuspensionPoint(calls[j])
  /\ \E started \in Startable(universe) :
       LET call == FirstStatement(started, nameToId)
           finished == call.pc \in {"await", "return"}
           whole == IF finished THEN WholeCall(call, WholeMaps)
                    ELSE WholeMaps
       IN  /\ calls' =
                IF call.pc \in {"throw", "return"} THEN calls
                ELSE Append(calls,
                            [call EXCEPT
                               !.snapshot = Stringify(Export(nameToId))])
           /\ last' = Step(call, call.pc = "throw", FALSE, whole)
  /\ UNCHANGED <<batch, universe, kind, storage, stored, nameToId, idToName>>

\* the call that holds the thread executes its next statement
CallRuns ==
  \E i \in 1..Len(calls) :
    /\ calls[i].pc # "await"
    /\ \A j \in 1..Len(calls) : j # i => SuspensionPoint(calls[j])
    /\ LET r == Statement(calls[i], nameToId, idToName)
           finished == r.call.pc \in {"await", "return"}
           call == [r.call EXCEPT !.snapshot = Stringify(Export(r.nameToId))]
       IN  /\ nameToId' = r.nameToId
           /\ idToName' = r.idToName
           /\ calls' = Settle(i, call)
           /\ last' = Step(call, FALSE, FALSE,
                           IF finished THEN WholeCall(call, WholeMaps)
                           ELSE WholeMaps)
    /\ UNCHANGED <<batch, universe, kind, storage, stored>>

\* a call suspended at its await is resumed: #persist() runs, and the call
\* settles
CallResumes ==
  \E i \in 1..Len(calls), succeeds \in WriteOutcomes :
    /\ calls[i].pc = "await"
    /\ \A j \in 1..Len(calls) : j # i => SuspensionPoint(calls[j])
    /\ stored' = IF CallsSetItem /\ succeeds
                 THEN Written(calls[i], nameToId)
                 ELSE stored
    /\ calls' = Without(i)
    /\ last' = Step(calls[i], FALSE, CallsSetItem, WholeMaps)
    /\ UNCHANGED <<batch, universe, kind, storage, nameToId, idToName>>

NextInFlight ==
  \/ CallStarts
  \/ CallRuns
  \/ CallResumes

\* register, unregister, import and clear calls on a registry of either
\* class
SpecAtomic ==
  InitInFlight("atomic", {"Local", "Persistent"}) /\ [][NextInFlight]_vars

\* register and unregister calls on a PersistentChannelRegistry with a store
SpecConcurrent ==
  InitInFlight("concurrent", {"Persistent"}) /\ [][NextInFlight]_vars

\* the exported string functions, called on any string
NextStrings ==
  \/ NormalizeCall
  \/ IsChannelNameCall
  \/ IsSuiNSNameCall

SpecStrings == LocalInit("strings") /\ [][NextStrings]_vars

(***************************************************************************)
(* Properties                                                              *)
(***************************************************************************)

\* resolve returned value v
Returned(r, v) == ~r.threw /\ r.value = v

\* resolve failed with the not-found error for the formatted alias
NotFound(r, formatted) ==
  r.threw /\ r.error = <<"Channel name not found: ", formatted>>

\* n2i and i2n are exact inverses
Inverses(n2i, i2n) ==
  /\ \A alias \in DOMAIN n2i : Get(i2n, n2i[alias]) = alias
  /\ \A id \in DOMAIN i2n : Get(n2i, i2n[id]) = id

\* C1: after any sequence of register, unregister, import (merge true or
\* false) and clear calls on a LocalChannelRegistry the two maps are exact
\* inverses: every (alias, id) of nameToId has (id, alias) in idToName, and
\* both maps have the same number of entries.
C1_MapsAreInverses ==
  /\ \A alias \in DOMAIN nameToId :
       /\ Has(idToName, nameToId[alias])
       /\ idToName[nameToId[alias]] = alias
  /\ Cardinality(DOMAIN nameToId) = Cardinality(DOMAIN idToName)

\* C2: in every state reached from an empty LocalChannelRegistry by register
\* and unregister calls alone (any aliases, any ids), no id is bound to more
\* than one alias in nameToId, and no idToName entry names an alias that is
\* not currently bound to that id.
C2_OneAliasPerId ==
  /\ \A a, b \in DOMAIN nameToId : nameToId[a] = nameToId[b] => a = b
  /\ \A id \in DOMAIN idToName :
       /\ Has(nameToId, idToName[id])
       /\ nameToId[idToName[id]] = id

\* C3: register(alias, id) called when the normalized alias is already bound
\* to a different id fails with the conflict error, whose message contains
\* the existing id, and leaves the registry as it was: both maps unchanged
\* and, for a PersistentChannelRegistry, no write to the store.
C3_ConflictRejected ==
  [][LET normalized == normalizeChannelName(last'.name)
     IN  (/\ last'.op = "register"
          /\ Has(nameToId, normalized)
          /\ nameToId[normalized] # last'.id)
         => /\ last'.threw
            /\ last'.error = <<"Channel name ", Hash \o normalized,
                               " is already registered to ",
                               nameToId[normalized]>>
            /\ nameToId' = nameToId
            /\ idToName' = idToName
            /\ stored' = stored
            /\ ~last'.wrote]_vars

\* C3 witness: a PersistentChannelRegistry with a store refused to bind to
\* Id2 a name bound to Id1, and wrote nothing
C3_Witness ==
  /\ kind = "Persistent"
  /\ storage
  /\ last.op = "register"
  /\ last.id = Id2
  /\ last.threw
  /\ last.error[4] = Id1
  /\ ~last.wrote
  /\ Get(nameToId, normalizeChannelName(last.name)) = Id1

\* C4: rename: when id is bound to alias a1 and register(a2, id) is called
\* with a2 normalizing to a different, unbound alias, the call succeeds,
\* reverseLookup(id) then returns the formatted a2, resolve(a1) then fails
\* with the not-found error, and size is unchanged.
C4_Rename ==
  \A a1 \in DOMAIN nameToId, name2 \in NamesOf(universe) :
    LET id == nameToId[a1]
        a2 == normalizeChannelName(name2)
        r == Register(nameToId, idToName, name2, id)
    IN  (a2 # a1 /\ ~Has(nameToId, a2))
        => /\ ~r.threw
           /\ ReverseLookup(r.idToName, id) = Hash \o a2
           /\ NotFound(Resolve(r.nameToId, Hash \o a1), Hash \o a1)
           /\ Size(r.nameToId) = Size(nameToId)

\* C5: round trip: after any sequence of register(name, id) calls on an
\* empty registry in which all names are pairwise distinct and all ids are
\* pairwise distinct, for every registered pair resolve(formatChannelName(
\* name)) returns id and reverseLookup(id) returns formatChannelName(name).
C5_RoundTrip ==
  \A i \in 1..Len(calls) :
    ~calls[i].threw
    => /\ Returned(Resolve(nameToId, formatChannelName(calls[i].name)),
                   calls[i].id)
       /\ ReverseLookup(idToName, calls[i].id)
            = formatChannelName(calls[i].name)

\* C6: idempotent re-registration: register(alias, id) called when the
\* normalized alias is already bound to that same id succeeds and leaves
\* both maps exactly unchanged.
C6_ReRegisterIsNoOp ==
  \A name \in NamesOf(universe), channelId \in IdsOf(universe) :
    LET normalized == normalizeChannelName(name)
        r == Register(nameToId, idToName, name, channelId)
    IN  (Has(nameToId, normalized) /\ nameToId[normalized] = channelId)
        => /\ ~r.threw
           /\ r.nameToId = nameToId
           /\ r.idToName = idToName

\* C7: unregister(alias): if the normalized alias is bound, afterwards
\* neither its nameToId entry nor the idToName entry of its id exists
\* (resolve fails, reverseLookup of the old id returns null) and every other
\* entry is unchanged; if it is not bound, the registry is unchanged.
C7_Unregister ==
  [][last'.op = "unregister"
     => LET normalized == normalizeChannelName(last'.name)
        IN  IF Has(nameToId, normalized)
            THEN LET id == nameToId[normalized]
                 IN  /\ ~last'.threw
                     /\ ~Has(nameToId', normalized)
                     /\ ~Has(idToName', id)
                     /\ Resolve(nameToId', Hash \o normalized).threw
                     /\ ReverseLookup(idToName', id) = Null
                     /\ nameToId' = Delete(nameToId, normalized)
                     /\ idToName' = Delete(idToName, id)
            ELSE /\ ~last'.threw
                 /\ nameToId' = nameToId
                 /\ idToName' = idToName]_vars

\* C7 witness: unregister('#A') removed the entry of 'a' and left another
C7_Witness ==
  /\ last.op = "unregister"
  /\ last.name = <<"#", "A">>
  /\ last.changed
  /\ ~Has(nameToId, <<"a">>)
  /\ Has(nameToId, <<"b">>)
  /\ Has(idToName, nameToId[<<"b">>])

\* C8: resolve of an alias-classified input whose normalized form is not
\* bound fails with the not-found error naming the formatted ('#'-prefixed)
\* alias, and does not change the registry; resolve of an alias-classified
\* input whose normalized form is bound always returns the bound id.
C8_ResolveAlias ==
  [][(last'.op = "resolve" /\ isChannelName(last'.name))
     => LET normalized == normalizeChannelName(last'.name)
        IN  /\ nameToId' = nameToId
            /\ idToName' = idToName
            /\ stored' = stored
            /\ IF Has(nameToId, normalized)
               THEN ~last'.threw /\ last'.result = nameToId[normalized]
               ELSE /\ last'.threw
                    /\ last'.error = <<"Channel name not found: ",
                                       Hash \o normalized>>]_vars

\* C8 witness: resolve(' a ') failed naming '#a' in a registry that holds
\* another name
C8_Witness ==
  /\ last.op = "resolve"
  /\ last.name = <<" ", "a", " ">>
  /\ last.threw
  /\ last.error = <<"Channel name not found: ", <<"#", "a">>>>
  /\ Has(nameToId, <<"b">>)

\* an input that is empty or starts with '0x'
LooksLikeId(input) == input = <<>> \/ startsWith(input, ZeroX)

\* C9: resolve of an input that is not classified as a channel alias (empty,
\* or starting with '0x') returns the input unchanged in every registry
\* state, whatever has been registered.
C9_IdsPassThrough ==
  /\ \A input \in ResolveInputsOf(universe) :
       LooksLikeId(input) => Returned(Resolve(nameToId, input), input)
  /\ (last.op = "resolve" /\ LooksLikeId(last.name))
       => ~last.threw /\ last.result = last.name

\* C9 witness: an id was resolved to itself by a registry that holds a name
C9_Witness ==
  /\ last.op = "resolve"
  /\ last.name = Id1
  /\ last.result = Id1
  /\ ~last.threw
  /\ nameToId # EmptyMap

\* the outcome of a resolve call as its caller sees it: the id returned, or
\* that it failed
Outcome(r) == IF r.threw THEN <<"threw">> ELSE r.value

\* C10 as stated: any two inputs with the same normalized form give the same
\* outcome from resolve, in every registry state.
C10_SameNormalizedSameOutcome ==
  \A x, y \in ResolveInputsOf(universe) :
    normalizeChannelName(x) = normalizeChannelName(y)
    => Outcome(Resolve(nameToId, x)) = Outcome(Resolve(nameToId, y))

\* C10 amended: any two inputs that isChannelName classifies as names and
\* that have the same normalized form give the same outcome from resolve:
\* the same id, or the same not-found error.
C10_SameAliasSameOutcome ==
  \A x, y \in ResolveInputsOf(universe) :
    (/\ isChannelName(x)
     /\ isChannelName(y)
     /\ normalizeChannelName(x) = normalizeChannelName(y))
    => Resolve(nameToId, x) = Resolve(nameToId, y)

\* C10 witness: ' a ' was resolved to the id that 'a' and '#A' resolve to
C10_Witness ==
  /\ last.op = "resolve"
  /\ last.name = <<" ", "a", " ">>
  /\ ~last.threw
  /\ last.result = Id1
  /\ Returned(Resolve(nameToId, <<"a">>), Id1)
  /\ Returned(Resolve(nameToId, <<"#", "A">>), Id1)

\* C11: normalizeChannelName is idempotent: for every string x,
\* normalizeChannelName(normalizeChannelName(x)) = normalizeChannelName(x).
C11_NormalizeIdempotent ==
  last.op = "normalizeChannelName"
  => normalizeChannelName(last.result) = last.result

\* C12: a PersistentChannelRegistry mirrors its state to the store on every
\* mutation: after register, unregister, import or clear completes (store
\* available, writes succeeding) the stored value is the serialization of
\* the current export().
C12_StoreMirrorsEveryMutation ==
  (/\ last.op \in {"register", "unregister", "import", "clear"}
   /\ ~last.threw)
  => stored = Stringify(Export(nameToId))

\* C13: after every successful register or unregister on a
\* PersistentChannelRegistry with a store, setItem is called with the
\* serialized export(), and after the in-memory mutation: a write that
\* succeeds stores the post-mutation state.
C13_WriteAfterMutation ==
  [][(/\ last'.op \in {"register", "unregister"}
      /\ ~last'.threw
      /\ kind = "Persistent"
      /\ storage)
     => /\ last'.wrote
        /\ ~last'.failed => stored' = Stringify(Export(nameToId'))]_vars

\* C13 witness: a register that changed the maps wrote both entries of the
\* registry to the store
C13_Witness ==
  /\ kind = "Persistent"
  /\ storage
  /\ last.op = "register"
  /\ last.changed
  /\ last.wrote
  /\ ~last.failed
  /\ Cardinality(DOMAIN nameToId) = 2
  /\ stored = Stringify(Export(nameToId))

\* C14: a store write that fails during register or unregister on a
\* PersistentChannelRegistry never reaches the caller and never rolls back
\* memory: the call succeeds, the maps hold the mutation, and the value
\* stored before is left as it was.
C14_WriteFailureSwallowed ==
  [][last'.failed
     => /\ ~last'.threw
        /\ stored' = stored
        /\ last'.op = "register"
             => LET r == Register(nameToId, idToName, last'.name, last'.id)
                IN  /\ ~r.threw
                    /\ nameToId' = r.nameToId
                    /\ idToName' = r.idToName
        /\ last'.op = "unregister"
             => LET r == Unregister(nameToId, idToName, last'.name)
                IN  /\ nameToId' = r.nameToId
                    /\ idToName' = r.idToName]_vars

\* C14 witness: an unregister whose write failed removed its entry from
\* memory while the store still holds the snapshot written before
C14_Witness ==
  /\ last.op = "unregister"
  /\ last.failed
  /\ ~last.threw
  /\ last.changed
  /\ ~Has(nameToId, normalizeChannelName(last.name))
  /\ stored.raw = "json"
  /\ Has(stored.members, normalizeChannelName(last.name))

\* C15: reload() on a PersistentChannelRegistry re-reads the store and
\* replaces the in-memory state with it, discarding every unsaved change:
\* afterwards the registry holds exactly what the store holds, and nothing
\* if the store holds no usable snapshot.
C15_ReloadReplaces ==
  (last.op = "reload" /\ storage)
  => /\ nameToId = (IF Readable(storage, stored)
                    THEN Parse(stored).value
                    ELSE EmptyMap)
     /\ \A alias \in DOMAIN nameToId :
          Get(idToName, nameToId[alias]) = alias

\* C16: construction of a PersistentChannelRegistry never fails because of
\* stored data: if the storage key is absent or its value cannot be parsed
\* the registry starts empty (size 0), the same state in both cases.
C16_ConstructionNeverFails ==
  (/\ kind = "Persistent"
   /\ last.op \in {"new", "constructor"}
   /\ ~(StoredTruthy(stored) /\ ~Parse(stored).threw))
  => /\ ~last.threw
     /\ nameToId = EmptyMap
     /\ idToName = EmptyMap
     /\ Size(nameToId) = 0

\* C16 witness: a registry constructed over a store whose value does not
\* parse is empty, the instance before it having held entries
C16_Witness ==
  /\ kind = "Persistent"
  /\ storage
  /\ last.op = "constructor"
  /\ last.changed
  /\ stored = Garbage
  /\ nameToId = EmptyMap

\* C17: rehydration round trip: after any sequence of successful register
\* and unregister calls on a PersistentChannelRegistry whose writes
\* succeed, a new PersistentChannelRegistry with the same storage key, and
\* reload() on the same instance, have an export() equal to the writer's
\* export() and two maps that are inverses.
C17_RehydrationRoundTrip ==
  \A entries \in InitialData(storage, stored) :
    LET c == Construct(storage, stored, entries)
        r == Reload(nameToId, idToName, storage, stored, entries)
    IN  /\ ~c.threw
        /\ Export(c.nameToId) = Export(nameToId)
        /\ Inverses(c.nameToId, c.idToName)
        /\ Export(r.nameToId) = Export(nameToId)
        /\ Inverses(r.nameToId, r.idToName)

\* C19: resolveMany (SuiNSResolver and LocalChannelRegistry) returns, when
\* every element resolves, a sequence of the length of the input whose i-th
\* element is the result of resolve(inputs[i]), whatever order the lookups
\* complete in; the empty input yields the empty output.
C19_ResolveManyPositional ==
  /\ (kind = "SuiNS" /\ batch.state = "fulfilled")
     => /\ Len(batch.result) = Len(batch.inputs)
        /\ \A i \in 1..Len(batch.inputs) :
             /\ batch.elems[i].status = "fulfilled"
             /\ batch.result[i] = batch.elems[i].value
             /\ batch.result[i] =
                  (IF isSuiNSName(batch.inputs[i])
                   THEN getNameRecord(batch.inputs[i]).targetAddress
                   ELSE batch.inputs[i])
  /\ (kind = "SuiNS" /\ batch.state # "idle" /\ batch.inputs = <<>>)
     => batch.state = "fulfilled" /\ batch.result = <<>>
  /\ (/\ last.op = "resolveMany"
      /\ \A i \in 1..Len(last.name) : ~Resolve(nameToId, last.name[i]).threw)
     => /\ ~last.threw
        /\ Len(last.result) = Len(last.name)
        /\ \A i \in 1..Len(last.name) :
             last.result[i] = Resolve(nameToId, last.name[i]).value

\* C19 witness: the lookup of the third element completed before that of
\* the first, and the addresses are at the places of their names
C19_Witness ==
  /\ kind = "SuiNS"
  /\ batch.state = "fulfilled"
  /\ batch.inputs = <<ASui, Id1, UpperASui>>
  /\ batch.order = <<3, 1>>
  /\ batch.result = <<AddressA, Id1, AddressB>>

\* the indices of the elements whose promise is rejected, of a batch
Rejected(b) == {i \in 1..Len(b.elems) : b.elems[i].status = "rejected"}

\* the element of a batch that was rejected first
FirstRejected(b) ==
  LET k == CHOOSE k \in 1..Len(b.order) :
             /\ b.order[k] \in Rejected(b)
             /\ \A j \in 1..(k - 1) : b.order[j] \notin Rejected(b)
  IN  b.order[k]

\* C20: resolveMany is fail-fast: if the resolution of any element fails
\* the whole call fails with the error of the first failing element, no
\* partial result sequence is ever returned, and the failure is reported
\* without waiting for the remaining lookups.
C20_ResolveManyFailFast ==
  /\ kind = "SuiNS"
     => /\ Rejected(batch) # {}
             => /\ batch.state = "rejected"
                /\ batch.result = batch.elems[FirstRejected(batch)].value
        /\ batch.state = "fulfilled"
             => /\ Rejected(batch) = {}
                /\ Len(batch.result) = Len(batch.inputs)
        /\ batch.state = "rejected" => Rejected(batch) # {}
  /\ last.op = "resolveMany"
     => LET failing == {i \in 1..Len(last.name) :
                         Resolve(nameToId, last.name[i]).threw}
        IN  failing # {}
            => /\ last.threw
               /\ last.result = Undefined
               /\ \E i \in failing :
                    /\ \A j \in failing : i <= j
                    /\ last.error = Resolve(nameToId, last.name[i]).error

\* C20 witness: the lookup of the third element failed while those of the
\* first and the second were in flight, and the call failed with its error
C20_Witness ==
  /\ kind = "SuiNS"
  /\ batch.inputs = <<ASui, ESui, NSui>>
  /\ batch.order = <<3>>
  /\ batch.elems[1].status = "pending"
  /\ batch.elems[2].status = "pending"
  /\ batch.state = "rejected"
  /\ batch.result = FailedToResolve(NSui)

\* both maps after the step are those of r
MapsBecome(r) == nameToId' = r.nameToId /\ idToName' = r.idToName

\* C18: with no store a PersistentChannelRegistry behaves as a
\* LocalChannelRegistry does: each call gives the result, the error and the
\* maps that the LocalChannelRegistry method gives on the same maps, save
\* and reload being no-ops.
C18_NoStoreBehavesAsLocal ==
  [][(kind = "Persistent" /\ ~storage)
     => /\ stored' = stored
        /\ ~last'.wrote
        /\ ~last'.failed
        /\ last'.op = "register"
             => LET r == Register(nameToId, idToName, last'.name, last'.id)
                IN  /\ MapsBecome(r)
                    /\ last'.threw = r.threw
                    /\ last'.error = r.error
        /\ last'.op = "unregister"
             => /\ MapsBecome(Unregister(nameToId, idToName, last'.name))
                /\ ~last'.threw
        /\ last'.op \in {"save", "reload"}
             => /\ nameToId' = nameToId
                /\ idToName' = idToName
                /\ ~last'.threw
        /\ last'.op = "resolve"
             => LET r == Resolve(nameToId, last'.name)
                IN  /\ nameToId' = nameToId
                    /\ idToName' = idToName
                    /\ last'.threw = r.threw
                    /\ last'.error = r.error
                    /\ last'.result = r.value
        /\ last'.op = "reverseLookup"
             => /\ nameToId' = nameToId
                /\ idToName' = idToName
                /\ last'.result = ReverseLookup(idToName, last'.id)
        /\ last'.op = "import"
             => \E data \in RecordsOf(universe), merge \in BOOLEAN :
                  MapsBecome(Import(nameToId, idToName, data, merge))
        /\ last'.op = "clear" => MapsBecome(Clear)
        /\ last'.op = "constructor"
             => MapsBecome(Constructor(EmptyMap, EmptyMap, <<>>))]_vars

\* C18 witness: with no store, reload() left the entries in memory
C18_Witness ==
  /\ kind = "Persistent"
  /\ ~storage
  /\ last.op = "reload"
  /\ Size(nameToId) = 2
  /\ stored = NoItem

\* a record the service answered with carries no target address
NoTarget(answer) ==
  ~answer.present \/ answer.targetAddress \in {Null, Undefined}

\* C21: SuiNSResolver.resolve fails with the error naming the input exactly
\* when the input is a SuiNS name and the lookup returns no record or a
\* record with no target address (null, undefined or missing); when the
\* record carries a target address, resolve returns that address.
C21_ResolutionFailed ==
  (batch.call = "resolve" /\ batch.state \in {"fulfilled", "rejected"})
  => LET x == batch.inputs[1]
         answer == getNameRecord(x)
     IN  /\ (batch.state = "rejected" /\ batch.result = FailedToResolve(x))
              <=> (isSuiNSName(x) /\ ~answer.threw /\ NoTarget(answer))
         /\ (isSuiNSName(x) /\ ~answer.threw /\ ~NoTarget(answer))
              => /\ batch.state = "fulfilled"
                 /\ batch.result = answer.targetAddress

\* C21 witness: resolve of a name whose record has a null target address
\* failed with the error naming it
C21_Witness ==
  /\ batch.call = "resolve"
  /\ batch.inputs = <<TSui>>
  /\ batch.order = <<1>>
  /\ batch.state = "rejected"
  /\ batch.result = FailedToResolve(TSui)

\* C22: for an input that is not a SuiNS name, SuiNSResolver.resolve
\* returns the input unchanged and issues no lookup; across resolve and
\* resolveMany the lookup is invoked exactly once per SuiNS name element
\* and never for another element.
C22_LookupOncePerName ==
  /\ (batch.call = "resolve" /\ ~isSuiNSName(batch.inputs[1]))
     => /\ batch.state = "fulfilled"
        /\ batch.result = batch.inputs[1]
        /\ batch.lookups = <<>>
  /\ batch.call # "none"
     => /\ Len(batch.lookups) =
             Cardinality({i \in 1..Len(batch.inputs) :
                            isSuiNSName(batch.inputs[i])})
        /\ \A i \in 1..Len(batch.inputs) :
             ~isSuiNSName(batch.inputs[i])
             => /\ batch.elems[i].status = "fulfilled"
                /\ batch.elems[i].value = batch.inputs[i]
                /\ i \notin {batch.order[k] : k \in 1..Len(batch.order)}

\* C22 witness: resolveMany of an address, a name and the address again
\* asked the service once
C22_Witness ==
  /\ batch.call = "resolveMany"
  /\ batch.inputs = <<Id1, ASui, Id1>>
  /\ batch.lookups = <<ASui>>
  /\ batch.state = "fulfilled"
  /\ batch.result = <<Id1, AddressA, Id1>>

\* C23: for a SuiNS name, SuiNSResolver.resolve forwards the input string
\* verbatim to the lookup, with no trimming or case folding: the key the
\* service receives equals the input character for character, subdomain
\* labels included.
C23_LookupKeyVerbatim ==
  batch.call # "none"
  => batch.lookups = SelectSeq(batch.inputs, isSuiNSName)

\* C23 witness: resolve('A.SUI') asked the service about 'A.SUI' and
\* returned the address of that name, not the one of 'a.sui'
C23_Witness ==
  /\ batch.call = "resolve"
  /\ batch.inputs = <<UpperASui>>
  /\ batch.lookups = <<UpperASui>>
  /\ batch.state = "fulfilled"
  /\ batch.result = AddressB

\* C24: an error raised by the lookup itself propagates from resolve and
\* resolveMany unchanged: the same error, not the resolver's own.
C24_ServiceErrorPropagates ==
  /\ (/\ batch.call = "resolve"
      /\ batch.state \in {"fulfilled", "rejected"}
      /\ isSuiNSName(batch.inputs[1])
      /\ getNameRecord(batch.inputs[1]).threw)
     => /\ batch.state = "rejected"
        /\ batch.result = getNameRecord(batch.inputs[1]).error
  /\ batch.call = "resolveMany"
     => \A i \in 1..Len(batch.inputs) :
          (/\ batch.elems[i].status # "pending"
           /\ isSuiNSName(batch.inputs[i])
           /\ getNameRecord(batch.inputs[i]).threw)
          => /\ batch.elems[i].status = "rejected"
             /\ batch.elems[i].value = getNameRecord(batch.inputs[i]).error
             /\ FirstRejected(batch) = i
                  => /\ batch.state = "rejected"
                     /\ batch.result = getNameRecord(batch.inputs[i]).error

\* C24 witness: resolveMany failed with the error of the service, the
\* lookup of another element being in flight
C24_Witness ==
  /\ batch.call = "resolveMany"
  /\ batch.inputs = <<ASui, ESui>>
  /\ batch.order = <<2>>
  /\ batch.state = "rejected"
  /\ batch.result = ServiceError


\* the alias->id pairs data stands for: each normalized key of data bound to
\* the id of the last entry whose key normalizes to it
LastPairs(data) ==
  [alias \in {normalizeChannelName(data[i][1]) : i \in 1..Len(data)} |->
     LET last_i == CHOOSE i \in 1..Len(data) :
                     /\ normalizeChannelName(data[i][1]) = alias
                     /\ \A j \in 1..Len(data) :
                          normalizeChannelName(data[j][1]) = alias => j <= i
     IN  data[last_i][2]]

\* C25: import(data, merge=false) discards all prior state: afterwards the
\* alias->id map holds exactly the normalized pairs of data, the last pair
\* winning when two keys normalize alike, and both maps are those of clear()
\* followed by import(data, merge=true); clear() leaves size 0, every resolve
\* of an alias failing with the not-found error and every reverseLookup
\* returning null.
C25_ImportReplaces ==
  [][/\ (last'.op = "import" /\ ~last'.merge)
          => /\ nameToId' = LastPairs(last'.name)
             /\ MapsBecome(Import(Clear.nameToId, Clear.idToName,
                                  last'.name, TRUE))
     /\ last'.op = "clear"
          => /\ Size(nameToId') = 0
             /\ \A name \in NamesOf(universe) :
                  NotFound(Resolve(nameToId', name), formatChannelName(name))
             /\ \A id \in IdsOf(universe) :
                  ReverseLookup(idToName', id) = Null]_vars

\* a replacing import of two keys that normalize alike has changed the maps
C25_Witness ==
  /\ last.op = "import"
  /\ ~last.merge
  /\ last.changed
  /\ Len(last.name) = 2
  /\ normalizeChannelName(last.name[1][1]) =
       normalizeChannelName(last.name[2][1])


\* the normalized keys of data
AliasesOf(data) == {normalizeChannelName(data[i][1]) : i \in 1..Len(data)}

\* no later entry of data has a key that normalizes as the key of entry i
LastOfItsAlias(data, i) ==
  \A j \in 1..Len(data) :
    normalizeChannelName(data[j][1]) = normalizeChannelName(data[i][1])
      => j <= i

\* every alias bound before the step and absent from data keeps its id
OthersKept(data) ==
  \A alias \in DOMAIN nameToId :
    alias \notin AliasesOf(data)
      => Returned(Resolve(nameToId', Hash \o alias), nameToId[alias])

\* C26 as stated: import(data, merge=true) never fails, the key of every
\* entry of data then resolves to the id of that entry, and every alias bound
\* before and absent from data still resolves to its previous id.
C26_EveryPairBound ==
  [][(last'.op = "import" /\ last'.merge)
       => /\ ~last'.threw
          /\ \A i \in 1..Len(last'.name) :
               Returned(Resolve(nameToId', last'.name[i][1]), last'.name[i][2])
          /\ OthersKept(last'.name)]_vars

\* C26: import(data, merge=true) never fails; the key of every entry of data
\* that is the last of data to normalize to its alias then resolves to the id
\* of that entry, whatever the alias was bound to before, and every alias
\* bound before and absent from data still resolves to its previous id.
C26_LastPairBound ==
  [][(last'.op = "import" /\ last'.merge)
       => /\ ~last'.threw
          /\ \A i \in 1..Len(last'.name) :
               LastOfItsAlias(last'.name, i)
                 => Returned(Resolve(nameToId', last'.name[i][1]),
                             last'.name[i][2])
          /\ OthersKept(last'.name)]_vars

\* a merging import of two entries has changed the maps and left an alias
\* that is not among its keys
C26_Witness ==
  /\ last.op = "import"
  /\ last.merge
  /\ last.changed
  /\ Len(last.name) = 2
  /\ \E alias \in DOMAIN nameToId : alias \notin AliasesOf(last.name)


\* C27: reverseLookup(id) returns the formatted alias whenever the id->alias
\* map has an entry for id and returns null, never failing, exactly when it
\* has none; it leaves the registry as it was.
C27_ReverseLookup ==
  /\ \A id \in IdsOf(universe) :
       IF Has(idToName, id)
       THEN ReverseLookup(idToName, id) = formatChannelName(idToName[id])
       ELSE ReverseLookup(idToName, id) = Null
  /\ last.op = "reverseLookup" => ~last.threw /\ ~last.changed


\* C28: register then unregister restores the prior state: when neither the
\* normalized alias nor the id is bound, register(name, id) succeeds, and
\* unregister of any name with the same normalized form then leaves both
\* maps, size and export() as they were before the register, resolve of the
\* alias failing with the not-found error again.
C28_RegisterThenUnregister ==
  [][(/\ last'.op = "register"
      /\ ~Has(nameToId, normalizeChannelName(last'.name))
      /\ ~Has(idToName, last'.id))
       => /\ ~last'.threw
          /\ Has(nameToId', normalizeChannelName(last'.name))
          /\ \A name \in NamesOf(universe) :
               normalizeChannelName(name) = normalizeChannelName(last'.name)
                 => LET r == Unregister(nameToId', idToName', name)
                    IN  /\ r.nameToId = nameToId
                        /\ r.idToName = idToName
                        /\ Size(r.nameToId) = Size(nameToId)
                        /\ Export(r.nameToId) = Export(nameToId)
                        /\ NotFound(Resolve(r.nameToId, last'.name),
                                    formatChannelName(last'.name))]_vars

\* register has bound a new alias to a new id in a registry that already
\* held another alias, and another spelling of the alias exists
C28_Witness ==
  /\ last.op = "register"
  /\ ~last.threw
  /\ last.changed
  /\ Size(nameToId) = 2
  /\ Cardinality(DOMAIN idToName) = 2
  /\ Get(nameToId, normalizeChannelName(last.name)) = last.id
  /\ \E name \in NamesOf(universe) :
       /\ name # last.name
       /\ normalizeChannelName(name) = normalizeChannelName(last.name)


\* C29: isChannelName classifies every string and never fails: false for
\* the empty string; for a non-empty string, false exactly when its first
\* two characters are '0x', so true for every string that starts with '#'
\* and for every bare word.
C29_IsChannelName ==
  last.op = "isChannelName"
  => /\ ~last.threw
     /\ last.result \in BOOLEAN
     /\ last.name = <<>> => last.result = FALSE
     /\ last.name # <<>>
          => (last.result = FALSE
                <=> /\ Len(last.name) >= 2
                    /\ last.name[1] = "0"
                    /\ last.name[2] = "x")
     /\ (last.name # <<>> /\ last.name[1] = "#") => last.result = TRUE

\* isChannelName has said of a bare word that it is an alias
C29_Witness ==
  /\ last.op = "isChannelName"
  /\ last.name = <<"a", "0", "x">>
  /\ last.result = TRUE

\* C30: isSuiNSName(input) is true if and only if the input ends with
\* '.sui' in any letter case: false for the empty string, true for the bare
\* suffix, for a subdomain and for upper-case spellings, and false for a
\* string that contains 'sui' without ending in '.sui'.
C30_IsSuiNSName ==
  last.op = "isSuiNSName"
  => LET input == last.name
         n == Len(input)
     IN  /\ last.result
               = (/\ n >= 4
                  /\ input[n - 3] = "."
                  /\ input[n - 2] \in {"s", "S"}
                  /\ input[n - 1] \in {"u", "U"}
                  /\ input[n] \in {"i", "I"})
         /\ input = <<>> => last.result = FALSE
         /\ input = DotSui => last.result = TRUE
         /\ input = <<"b", ".", "a", ".", "s", "u", "i">>
              => last.result = TRUE
         /\ input \in {<<"s", "u", "i">>, <<"a", "s", "u", "i">>,
                       <<"a", ".", "s", "u", "i", ".">>,
                       <<"s", "u", "i", ".", "a">>}
              => last.result = FALSE

\* isSuiNSName has said of an upper-case subdomain that it is a SuiNS name
C30_Witness ==
  /\ last.op = "isSuiNSName"
  /\ last.name = <<"b", ".", "a", ".", "S", "U", "I">>
  /\ last.result = TRUE


\* C31: every key of the alias->id map, and so of export(), is a bare
\* normalized alias after any sequence of register, import and construction
\* with initial mappings: it does not start with '#', and normalizing it
\* again gives the same key.
C31_KeysAreBare ==
  \A key \in DOMAIN Export(nameToId) :
    /\ ~startsWith(key, Hash)
    /\ normalizeChannelName(key) = key


\* an empty registry on which each mapping is registered in order; ok is
\* whether every register call succeeded
RECURSIVE RegisterAll(_, _, _)
RegisterAll(n2i, i2n, mappings) ==
  IF mappings = <<>> THEN [nameToId |-> n2i, idToName |-> i2n, ok |-> TRUE]
  ELSE LET r == Register(n2i, i2n, mappings[1][1], mappings[1][2])
       IN  IF r.threw
           THEN [nameToId |-> r.nameToId, idToName |-> r.idToName,
                 ok |-> FALSE]
           ELSE RegisterAll(r.nameToId, r.idToName, Tail(mappings))

\* C35: a LocalChannelRegistry constructed with initial mappings whose
\* normalized names are pairwise distinct has as many entries as mappings,
\* resolves every spelling of each supplied name to the supplied id, and has
\* the maps of an empty registry on which each mapping was registered in
\* order.
C35_ConstructedAsRegistered ==
  (/\ last.op = "new"
   /\ \A i, j \in 1..Len(last.name) :
        i # j => normalizeChannelName(last.name[i][1])
                   # normalizeChannelName(last.name[j][1]))
  => LET registered == RegisterAll(EmptyMap, EmptyMap, last.name)
     IN  /\ Size(nameToId) = Len(last.name)
         /\ \A i \in 1..Len(last.name) :
              \A input \in NamesOf(universe)
                             \cup {formatChannelName(last.name[i][1])} :
                normalizeChannelName(input)
                    = normalizeChannelName(last.name[i][1])
                  => Returned(Resolve(nameToId, input), last.name[i][2])
         /\ registered.ok
         /\ nameToId = registered.nameToId
         /\ idToName = registered.idToName


\* C32: list() is a complete snapshot: in every reachable state it has one
\* entry per registered alias (as many entries as size), each keyed by '#'
\* followed by the stored alias and carrying the id of that alias, and
\* resolve of any key of list() returns the value list() gives for it.
C32_ListIsSnapshot ==
  /\ Cardinality(ListKeys(nameToId)) = Size(nameToId)
  /\ \A alias \in DOMAIN nameToId :
       /\ Hash \o alias \in ListKeys(nameToId)
       /\ ListValues(nameToId, Hash \o alias) = {nameToId[alias]}
  /\ \A result \in List(nameToId) :
       \A key \in DOMAIN result :
         Returned(Resolve(nameToId, key), result[key])


\* no call is in the middle of its statements: every call in flight is at a
\* suspension point, where another call may run
AllSuspended == \A j \in 1..Len(calls) : SuspensionPoint(calls[j])

\* C33: no caller can observe a half-updated pair of maps: whenever every
\* call in flight is at a suspension point, so that another call may run,
\* the two maps are those left by the calls completed so far, each taken as
\* one whole register, unregister, import or clear.
C33_NoHalfUpdatedMaps ==
  AllSuspended
  => /\ nameToId = WholeMaps.nameToId
     /\ idToName = WholeMaps.idToName

\* a register is between its two writes, alias bound and id not yet, while
\* another call is suspended at its await
C33_Witness ==
  /\ \E i \in 1..Len(calls) :
       /\ calls[i].op = "register"
       /\ calls[i].pc = "setId"
       /\ Get(nameToId, calls[i].key) = calls[i].channelId
       /\ Get(idToName, calls[i].channelId) # calls[i].key
  /\ \E j \in 1..Len(calls) : calls[j].pc = "await"


\* C34: with register and unregister calls in flight on one
\* PersistentChannelRegistry, resumed in any order, every value written to
\* the store is the serialization of export() at the moment of the write,
\* and once a call has been made and every call has settled the store holds
\* the serialization of the final export().
C34_NoStaleSnapshot ==
  [][/\ last'.wrote => stored' = Stringify(Export(nameToId'))
     /\ calls' = <<>> => stored' = Stringify(Export(nameToId'))]_vars

\* a call has written both aliases to the store while a call that changed
\* the maps before it, when export() held one alias, is still to write
C34_Witness ==
  /\ last.wrote
  /\ Size(nameToId) = 2
  /\ stored = Stringify(Export(nameToId))
  /\ Len(calls) = 1
  /\ calls[1].pc = "await"
  /\ calls[1].snapshot.raw = "json"
  /\ Cardinality(DOMAIN calls[1].snapshot.members) = 1

====
